---- MODULE Spec2Model ----
(***************************************************************************)
(* Dictionary-based text classification (src/streamlit_app.py).            *)
(*                                                                         *)
(* A string is a sequence of one-character strings.  A compiled regular    *)
(* expression is a sequence of tokens, obtained as Python obtains it: the  *)
(* pattern source is built from re.escape(term) and the \b anchors, and    *)
(* re.compile parses that source.                                          *)
(***************************************************************************)
EXTENDS Integers, Sequences, FiniteSets, TLC

VARIABLES
    pc,            \* position in the run being modelled
    term,          \* one keyword (a string)
    text,          \* the value handed to classify_text / Pattern.search
    pattern,       \* the pattern compiled from term
    hit,           \* the outcome of pattern.search(text)
    dictionaries,  \* the argument of compile_patterns
    compiled,      \* what compile_patterns returned
    result,        \* what classify_text returned (or that it raised)
    raw_dict_json, \* the sidebar's text area
    user_dict,     \* the parsed dictionary
    dict_error,    \* the parse error shown in the sidebar, or "none"
    uploaded_file, \* the uploaded CSV, or PyNone
    df,            \* the Statement column of the table read from it
    labels,        \* the labels column as far as it has been computed
    crash,         \* the exception that ended the run, or "none"
    heap,          \* the dict and list objects of a session, by identity
    user_ref,      \* the identity of the dictionary being edited
    store,         \* the identities of the compiled dictionaries returned so far
    log,           \* the classify_text calls made: which compiled, text, value
    ops            \* the number of operations of the session so far

matcherVars == <<term, pattern, hit>>
classifyVars == <<dictionaries, compiled, result>>
pipelineVars == <<raw_dict_json, user_dict, dict_error, uploaded_file, df, labels, crash>>
sessionVars == <<heap, user_ref, store, log, ops>>
vars == <<pc, text, matcherVars, classifyVars, pipelineVars, sessionVars>>

\* ------------------------------------------------------------------ bounds
MaxTermLen == 2
MaxTextLen == 3

MaxLabels == 2
MaxRecords == 2
MaxOps == 5

\* The characters the inputs are drawn from: letters in both cases, a digit,
\* a punctuation character that is also a regex metacharacter, a space, a tab.
Alphabet == {"a", "n", "A", "1", ".", " ", "\t"}

Strs(A, n) == UNION {[1..k -> A] : k \in 0..n}

\* ------------------------------------------------------- characters (re)
\* \w of Python's re for str patterns: letters, digits and the underscore.
WordChars == {"a", "n", "A", "N", "0", "1", "2", "3", "4", "5", "6", "7", "8", "9", "_"}

IsWord(c) == c \in WordChars

\* Case folding of flags=re.I.
Fold(c) == CASE c = "A" -> "a" [] c = "N" -> "n" [] OTHER -> c

\* The characters re.escape puts a backslash before (those of the alphabet
\* among ()[]{}?*+-|^$\.&~# and the ASCII whitespace).
SpecialChars == {".", " ", "\t", "\n", "\\", "*", "+", "?", "-"}

RECURSIVE re_escape(_)
re_escape(s) ==
    IF s = <<>> THEN <<>>
    ELSE (IF Head(s) \in SpecialChars THEN <<"\\", Head(s)>> ELSE <<Head(s)>>)
         \o re_escape(Tail(s))

\* Tokens of a compiled pattern.
Boundary == [tok |-> "b"]
AnyChar == [tok |-> "any"]
Lit(c) == [tok |-> "lit", ch |-> c]

\* re.compile on a pattern source: \b is the word-boundary assertion, a
\* backslash before any other character makes it a literal, an unescaped dot
\* matches any character but a newline, everything else is a literal.
RECURSIVE re_compile(_)
re_compile(src) ==
    IF src = <<>> THEN <<>>
    ELSE IF Head(src) = "\\" /\ Len(src) >= 2
         THEN <<(IF src[2] = "b" THEN Boundary ELSE Lit(src[2]))>>
              \o re_compile(Tail(Tail(src)))
         ELSE <<(IF Head(src) = "." THEN AnyChar ELSE Lit(Head(src)))>>
              \o re_compile(Tail(src))

\* Is there a word character at index i of s (FALSE outside the string)?
WordAt(s, i) == i >= 1 /\ i <= Len(s) /\ IsWord(s[i])

\* \b at offset pos (between s[pos] and s[pos+1]).
AtBoundary(s, pos) == WordAt(s, pos) # WordAt(s, pos + 1)

\* Does the token sequence p, from its j-th token, match s at offset pos?
RECURSIVE MatchFrom(_, _, _, _)
MatchFrom(p, j, s, pos) ==
    IF j > Len(p) THEN TRUE
    ELSE CASE p[j].tok = "b" -> AtBoundary(s, pos) /\ MatchFrom(p, j + 1, s, pos)
           [] p[j].tok = "any" -> /\ pos + 1 <= Len(s)
                                  /\ s[pos + 1] # "\n"
                                  /\ MatchFrom(p, j + 1, s, pos + 1)
           [] OTHER -> /\ pos + 1 <= Len(s)
                       /\ Fold(s[pos + 1]) = Fold(p[j].ch)
                       /\ MatchFrom(p, j + 1, s, pos + 1)

\* Pattern.search(s): a match starting at some offset of s.
search(p, s) == \E pos \in 0..Len(s) : MatchFrom(p, 1, s, pos)

\* ------------------------------------------------------ compile_patterns
Contains(s, c) == \E i \in 1..Len(s) : s[i] = c

\* The pattern compiled for one keyword (the body of the inner loop).
compile_term(t) ==
    IF Contains(t, " ")
    THEN re_compile(re_escape(t))
    ELSE re_compile(<<"\\", "b">> \o re_escape(t) \o <<"\\", "b">>)

\* ---------------------------------------------------------- Python values
PyStr(s) == [kind |-> "str", s |-> s]
PyInt(n) == [kind |-> "int", n |-> n]
PyList(xs) == [kind |-> "list", items |-> xs]
PyNone == [kind |-> "None"]
PyNaN == [kind |-> "nan"]

\* A test for None alone (`text is None`).
is_none(v) == v.kind = "None"

\* pandas.isna on a scalar: PyNone and the float not-a-number are missing.
isna(v) == v.kind \in {"None", "nan"}

Digit(d) == CASE d = 0 -> "0" [] d = 1 -> "1" [] d = 2 -> "2" [] d = 3 -> "3"
              [] d = 4 -> "4" [] d = 5 -> "5" [] d = 6 -> "6" [] d = 7 -> "7"
              [] d = 8 -> "8" [] OTHER -> "9"

RECURSIVE Decimal(_)
Decimal(n) == IF n < 10 THEN <<Digit(n)>> ELSE Decimal(n \div 10) \o <<Digit(n % 10)>>

\* str(v) of a scalar.
py_str(v) ==
    CASE v.kind = "str" -> v.s
      [] v.kind = "int" -> IF v.n < 0 THEN <<"-">> \o Decimal(-v.n) ELSE Decimal(v.n)
      [] v.kind = "None" -> <<"N", "o", "n", "e">>
      [] OTHER -> <<"n", "a", "n">>

\* The terms a vocabulary yields when iterated, or that it cannot be iterated:
\* a list yields its items, a string its characters.
Iterable(v) == v.kind \in {"list", "str"}
Iterate(v) ==
    CASE v.kind = "list" -> v.items
      [] v.kind = "str" -> [i \in 1..Len(v.s) |-> PyStr(<<v.s[i]>>)]
      [] OTHER -> <<>>

\* An inner loop that passes over the terms that are not strings.
RECURSIVE compile_vocab_skipping(_)
compile_vocab_skipping(terms) ==
    IF terms = <<>> THEN [raised |-> FALSE, patterns |-> <<>>]
    ELSE IF Head(terms).kind # "str" THEN compile_vocab_skipping(Tail(terms))
    ELSE [raised |-> FALSE,
          patterns |-> <<compile_term(Head(terms).s)>>
                       \o compile_vocab_skipping(Tail(terms)).patterns]

\* The inner loop over one vocabulary: the list of patterns, or that a term
\* made it raise (`" " in term` on a number or PyNone, re.escape on a list).
RECURSIVE compile_vocab(_)
compile_vocab(terms) ==
    IF terms = <<>> THEN [raised |-> FALSE, patterns |-> <<>>]
    ELSE IF Head(terms).kind # "str" THEN [raised |-> TRUE, patterns |-> <<>>]
    ELSE LET rest == compile_vocab(Tail(terms))
         IN  [raised |-> rest.raised,
              patterns |-> IF rest.raised THEN <<>>
                           ELSE <<compile_term(Head(terms).s)>> \o rest.patterns]

\* compile_patterns(dictionaries): dictionaries is the sequence of the dict's
\* items in iteration order, and so is the value returned.
RECURSIVE compile_patterns(_)
compile_patterns(d) ==
    IF d = <<>> THEN [raised |-> FALSE, value |-> <<>>]
    ELSE IF ~Iterable(Head(d).vocab) THEN [raised |-> TRUE, value |-> <<>>]
    ELSE LET ps == compile_vocab(Iterate(Head(d).vocab))
             rest == compile_patterns(Tail(d))
         IN  IF ps.raised \/ rest.raised THEN [raised |-> TRUE, value |-> <<>>]
             ELSE [raised |-> FALSE,
                   value |-> <<[label |-> Head(d).label, patterns |-> ps.patterns]>>
                             \o rest.value]

\* ---------------------------------------------------------- classify_text
\* any(p.search(text) for p in patterns): the patterns are tried in order up
\* to the first hit; Pattern.search raises TypeError on a non-string.
RECURSIVE any_search(_, _)
any_search(ps, t) ==
    IF ps = <<>> THEN [raised |-> FALSE, hit |-> FALSE, evals |-> 0]
    ELSE IF t.kind # "str" THEN [raised |-> TRUE, hit |-> FALSE, evals |-> 1]
    ELSE IF search(Head(ps), t.s) THEN [raised |-> FALSE, hit |-> TRUE, evals |-> 1]
    ELSE LET r == any_search(Tail(ps), t) IN [r EXCEPT !.evals = @ + 1]

\* The list comprehension over compiled.items().
RECURSIVE collect_hits(_, _)
collect_hits(c, t) ==
    IF c = <<>> THEN [raised |-> FALSE, hits |-> <<>>, evals |-> 0]
    ELSE LET a == any_search(Head(c).patterns, t)
         IN  IF a.raised THEN [raised |-> TRUE, hits |-> <<>>, evals |-> a.evals]
             ELSE LET r == collect_hits(Tail(c), t)
                  IN  [raised |-> r.raised,
                       hits |-> IF r.raised THEN <<>>
                                ELSE (IF a.hit THEN <<Head(c).label>> ELSE <<>>) \o r.hits,
                       evals |-> a.evals + r.evals]

\* Joining with a space after the separator.
RECURSIVE str_join_spaced(_, _)
str_join_spaced(sep, xs) ==
    IF xs = <<>> THEN <<>>
    ELSE IF Len(xs) = 1 THEN xs[1]
    ELSE xs[1] \o sep \o <<" ">> \o str_join_spaced(sep, Tail(xs))

\* sep.join(xs)
RECURSIVE str_join(_, _)
str_join(sep, xs) ==
    IF xs = <<>> THEN <<>>
    ELSE IF Len(xs) = 1 THEN xs[1]
    ELSE xs[1] \o sep \o str_join(sep, Tail(xs))

\* classify_text(text, compiled): the string returned, or that it raised,
\* and the number of Pattern.search calls it made.
classify_text(t, c) ==
    IF isna(t) THEN [raised |-> FALSE, value |-> <<>>, evals |-> 0]
    ELSE LET h == collect_hits(c, t)
         IN  [raised |-> h.raised,
              value |-> IF h.raised THEN <<>> ELSE str_join(<<",">>, h.hits),
              evals |-> h.evals]

NoResult == [raised |-> FALSE, value |-> <<>>, evals |-> 0]

\* ---------------------------------------------------------- matcher spec
InitMatcher ==
    /\ pc = "compile"
    /\ term \in Strs(Alphabet, MaxTermLen)
    /\ text \in {PyStr(s) : s \in Strs(Alphabet, MaxTextLen)}
    /\ pattern = <<>>
    /\ hit = FALSE
    /\ dictionaries = <<>>
    /\ compiled = <<>>
    /\ result = NoResult
    /\ raw_dict_json = PyNone
    /\ user_dict = <<>>
    /\ dict_error = "none"
    /\ uploaded_file = PyNone
    /\ df = <<>>
    /\ labels = <<>>
    /\ crash = "none"
    /\ heap = <<>>
    /\ user_ref = 0
    /\ store = <<>>
    /\ log = <<>>
    /\ ops = 0

CompileTerm ==
    /\ pc = "compile"
    /\ pattern' = compile_term(term)
    /\ pc' = "search"
    /\ UNCHANGED <<term, text, hit, classifyVars, pipelineVars, sessionVars>>

SearchText ==
    /\ pc = "search"
    /\ hit' = search(pattern, text.s)
    /\ pc' = "matched"
    /\ UNCHANGED <<term, text, pattern, classifyVars, pipelineVars, sessionVars>>

NextMatcher == CompileTerm \/ SearchText

SpecMatcher == InitMatcher /\ [][NextMatcher]_vars

\* ------------------------------------------- properties of the matchers
Whitespace == {" ", "\t", "\n"}
HasWhitespace(s) == \E i \in 1..Len(s) : s[i] \in Whitespace

\* The two kinds of matcher: the literal alone, and the literal between two
\* word-boundary anchors.
PhraseMatcher(s) == [i \in 1..Len(s) |-> Lit(s[i])]
WordMatcher(s) == <<Boundary>> \o PhraseMatcher(s) \o <<Boundary>>

\* C7: a keyword containing any whitespace character (a space, a tab, a
\* newline) is compiled to a phrase matcher, a keyword containing none to a
\* word matcher.
C7_KindByAnyWhitespace ==
    pc # "compile" =>
        pattern = IF HasWhitespace(term) THEN PhraseMatcher(term) ELSE WordMatcher(term)

\* The keyword k occurs in s at offset off (compared case-insensitively).
OccursAt(k, s, off) ==
    /\ off + Len(k) <= Len(s)
    /\ \A j \in 1..Len(k) : Fold(s[off + j]) = Fold(k[j])

\* ... with no word character immediately before it and none after it.
IsolatedAt(k, s, off) ==
    /\ OccursAt(k, s, off)
    /\ ~WordAt(s, off)
    /\ ~WordAt(s, off + Len(k) + 1)

\* C2: the word matcher of a single-token keyword (here a non-empty one) hits
\* a text only at an occurrence of the keyword, compared case-insensitively,
\* that has no word character immediately before it and none immediately
\* after it.
C2_WordMatcherHitsOnlyIsolated ==
    (pc = "matched" /\ term # <<>> /\ ~HasWhitespace(term) /\ hit) =>
        \E off \in 0..Len(text.s) : IsolatedAt(term, text.s, off)

\* --------------------------------------------------------- classify spec
\* compile_patterns on a well-formed dictionary, then classify_text on one value.
StatementAlphabet == {"a", "N", ".", " "}

LabelNames == {<<"x">>, <<"y">>, <<"x", "y">>}

\* Vocabularies: none, one word, a word and a phrase, the empty keyword, a
\* keyword that begins with punctuation, the empty keyword beside a word, a digit.
Vocabularies ==
    { PyList(<<>>),
      PyList(<<PyStr(<<"a">>)>>),
      PyList(<<PyStr(<<"a", "n">>), PyStr(<<"a", " ", "n">>)>>),
      PyList(<<PyStr(<<>>)>>),
      PyList(<<PyStr(<<".", "a">>)>>),
      PyList(<<PyStr(<<>>), PyStr(<<"n">>)>>),
      PyList(<<PyStr(<<"1">>)>>) }

Labels(d) == {d[i].label : i \in 1..Len(d)}

\* A dict holds each key once.
DictsOver(vocabs, n) ==
    {d \in UNION {[1..k -> [label : LabelNames, vocab : vocabs]] : k \in 0..n} :
        Cardinality(Labels(d)) = Len(d)}

TextValues ==
    {PyStr(s) : s \in Strs(StatementAlphabet, MaxTextLen)}
        \cup {PyNone, PyNaN, PyInt(1), PyInt(10)}

InitClassify ==
    /\ pc = "compile"
    /\ dictionaries \in DictsOver(Vocabularies, MaxLabels)
    /\ text \in TextValues
    /\ compiled = <<>>
    /\ result = NoResult
    /\ term = <<>>
    /\ pattern = <<>>
    /\ hit = FALSE
    /\ raw_dict_json = PyNone
    /\ user_dict = <<>>
    /\ dict_error = "none"
    /\ uploaded_file = PyNone
    /\ df = <<>>
    /\ labels = <<>>
    /\ crash = "none"
    /\ heap = <<>>
    /\ user_ref = 0
    /\ store = <<>>
    /\ log = <<>>
    /\ ops = 0

CompileDictionaries ==
    /\ pc = "compile"
    /\ ~compile_patterns(dictionaries).raised
    /\ compiled' = compile_patterns(dictionaries).value
    /\ pc' = "classify"
    /\ UNCHANGED <<text, dictionaries, result, matcherVars, pipelineVars, sessionVars>>

ClassifyText ==
    /\ pc = "classify"
    /\ result' = classify_text(text, compiled)
    /\ pc' = "classified"
    /\ UNCHANGED <<text, dictionaries, compiled, matcherVars, pipelineVars, sessionVars>>

NextClassify == CompileDictionaries \/ ClassifyText

SpecClassify == InitClassify /\ [][NextClassify]_vars

\* ------------------------------------------------- properties of classify
Done == pc = "classified"

\* The patterns compiled for a label.
PatternsOf(l) ==
    UNION {{compiled[i].patterns[j] : j \in 1..Len(compiled[i].patterns)} :
              i \in {i \in 1..Len(compiled) : compiled[i].label = l}}

\* The positions of the dictionary whose label has a matcher that matches.
HitPositions(s) ==
    {i \in 1..Len(dictionaries) :
        \E p \in PatternsOf(dictionaries[i].label) : search(p, s)}

\* The labels string the positions H stand for, built position by position:
\* a hit label is preceded by a comma exactly when a hit precedes it.
RECURSIVE LabelsUpTo(_, _)
LabelsUpTo(H, n) ==
    IF n = 0 THEN <<>>
    ELSE LabelsUpTo(H, n - 1)
         \o (IF n \notin H THEN <<>>
             ELSE (IF \E h \in H : h < n THEN <<",">> ELSE <<>>)
                  \o dictionaries[n].label)

\* C1: on a text, classify_text returns the labels that have a matching
\* matcher, comma-joined in the dictionary's order, each once, with no
\* surrounding whitespace, and the empty string when no label hits.
C1_LabelsInDictionaryOrder ==
    (Done /\ text.kind = "str") =>
        LET H == HitPositions(text.s)
            v == result.value
        IN  /\ ~result.raised
            /\ v = LabelsUpTo(H, Len(dictionaries))
            /\ H = {} => v = <<>>
            /\ v # <<>> => v[1] \notin Whitespace /\ v[Len(v)] \notin Whitespace

\* Two labels hit, and the dictionary lists y before x.
C1_Witness ==
    Done /\ text.kind = "str" /\ result.value = <<"y", ",", "x">>

\* C4: a missing text gives the empty string, with no matcher evaluated and
\* no error.
C4_MissingTextIsEmpty ==
    (Done /\ text.kind \in {"None", "nan"}) =>
        ~result.raised /\ result.value = <<>> /\ result.evals = 0

\* The not-a-number sentinel classified against a dictionary that has patterns.
C4_Witness ==
    /\ Done
    /\ text = PyNaN
    /\ \E i \in 1..Len(compiled) : compiled[i].patterns # <<>>

\* C6: a non-missing value that is not a string does not make classify_text
\* raise, and is classified as its string representation is.
C6_NonStringCoerced ==
    (Done /\ text.kind = "int") =>
        /\ ~result.raised
        /\ result.value = classify_text(PyStr(py_str(text)), compiled).value

\* A keyword occurs in a text (compared case-insensitively).
Occurs(k, s) == \E off \in 0..Len(s) : OccursAt(k, s, off)

\* The keywords of a vocabulary.
Keywords(v) == {v.items[j].s : j \in 1..Len(v.items)}

\* C3: when the text is a (non-empty) keyword of label L and no keyword of
\* another label occurs in it, the labels string is exactly L.
C3_KeywordAloneYieldsItsLabel ==
    \A i \in 1..Len(dictionaries) :
        (/\ Done
         /\ text.kind = "str"
         /\ text.s # <<>>
         /\ text.s \in Keywords(dictionaries[i].vocab)
         /\ \A o \in 1..Len(dictionaries) :
                o # i => \A k \in Keywords(dictionaries[o].vocab) : ~Occurs(k, text.s))
        => (~result.raised /\ result.value = dictionaries[i].label)

\* The labels of a labels string: its pieces between the commas.
RECURSIVE Split(_)
Split(s) ==
    IF \A i \in 1..Len(s) : s[i] # ","
    THEN <<s>>
    ELSE LET c == CHOOSE i \in 1..Len(s) : s[i] = "," /\ \A j \in 1..(i - 1) : s[j] # ","
         IN  <<SubSeq(s, 1, c - 1)>> \o Split(SubSeq(s, c + 1, Len(s)))

LabelsIn(s) == IF s = <<>> THEN {} ELSE {Split(s)[i] : i \in 1..Len(Split(s))}

\* C8: a label that has the empty keyword is in the labels string only if one
\* of its non-empty keywords matches.
C8_EmptyKeywordNeverMatches ==
    \A i \in 1..Len(dictionaries) :
        (/\ Done
         /\ text.kind = "str"
         /\ <<>> \in Keywords(dictionaries[i].vocab)
         /\ dictionaries[i].label \in LabelsIn(result.value))
        => \E k \in Keywords(dictionaries[i].vocab) :
               k # <<>> /\ search(compile_term(k), text.s)

\* ------------------------------------------------------------ the script
\* json.loads: the text does not parse, or it parses to a value; an object
\* becomes a dict, in which a repeated key keeps its first position and its
\* last value.
JsonObject(pairs) == [kind |-> "object", pairs |-> pairs]
Unparseable == [kind |-> "garbage"]

LastValue(pairs, k) ==
    pairs[CHOOSE i \in 1..Len(pairs) :
              pairs[i].label = k /\ \A j \in (i + 1)..Len(pairs) : pairs[j].label # k].vocab

RECURSIVE dict_items(_, _)
dict_items(pairs, n) ==
    IF n > Len(pairs) THEN <<>>
    ELSE (IF \E j \in 1..(n - 1) : pairs[j].label = pairs[n].label THEN <<>>
          ELSE <<[label |-> pairs[n].label, vocab |-> LastValue(pairs, pairs[n].label)]>>)
         \o dict_items(pairs, n + 1)

json_loads(raw) ==
    CASE raw.kind = "garbage" -> [raised |-> TRUE, value |-> PyNone]
      [] raw.kind = "object" -> [raised |-> FALSE,
                                 value |-> [kind |-> "dict", items |-> dict_items(raw.pairs, 1)]]
      [] OTHER -> [raised |-> FALSE, value |-> raw]

\* The try block: the parse, then every bare string value made a list of one.
parse_user_dict(raw) ==
    LET j == json_loads(raw)
    IN  IF j.raised THEN [user_dict |-> <<>>, dict_error |-> "JSONDecodeError"]
        ELSE IF j.value.kind # "dict" THEN [user_dict |-> <<>>, dict_error |-> "AttributeError"]
        ELSE [user_dict |-> [i \in 1..Len(j.value.items) |->
                                 IF j.value.items[i].vocab.kind = "str"
                                 THEN [j.value.items[i] EXCEPT !.vocab = PyList(<<@>>)]
                                 ELSE j.value.items[i]],
              dict_error |-> "none"]

\* set(v): v must be iterable and its items hashable; the set holds each item
\* once, and iterates in an order the program does not choose.
Items(v) == {Iterate(v)[j] : j \in 1..Len(Iterate(v))}
Orders(S) == {o \in [1..Cardinality(S) -> S] : \A i, j \in 1..Cardinality(S) : i # j => o[i] # o[j]}
set_raises(v) == ~Iterable(v) \/ \E x \in Items(v) : x.kind = "list"

\* {k: set(v) for k, v in user_dict.items()}: whether it raises, and the
\* dictionaries it can produce.
sets_raise(d) == \E i \in 1..Len(d) : set_raises(d[i].vocab)
RECURSIVE sets_of(_)
sets_of(d) ==
    IF d = <<>> THEN {<<>>}
    ELSE {<<[label |-> Head(d).label, vocab |-> PyList(o)]>> \o r :
              o \in Orders(Items(Head(d).vocab)), r \in sets_of(Tail(d))}

\* Series.astype(str) on one cell.  A string and a number become their str();
\* a missing value becomes the text "nan" under pandas before 3.0 and stays
\* missing from 3.0 on: the source pins no version.
astype_str(v) == IF v.kind = "nan" THEN {PyStr(py_str(v)), v} ELSE {PyStr(py_str(v))}

\* Keyword dictionaries typed into the sidebar.
JsonVocabularies ==
    { PyStr(<<"n", "a", "n">>),
      PyList(<<PyStr(<<"a">>)>>),
      PyList(<<PyStr(<<"a", " ", "n">>), PyStr(<<"n">>), PyStr(<<"n">>)>>),
      PyInt(5),
      PyNone,
      PyList(<<PyInt(1)>>),
      PyList(<<PyStr(<<"a">>), PyNone>>),
      PyList(<<PyList(<<PyStr(<<"a">>)>>)>>) }

JsonLabels == {<<"x">>, <<"y">>}

RawInputs ==
    {Unparseable, PyList(<<>>)}
        \cup {JsonObject(ps) :
                ps \in UNION {[1..k -> [label : JsonLabels, vocab : JsonVocabularies]] :
                                 k \in 0..MaxLabels}}

\* Uploads: none, a file read_csv rejects, a table without the Statement
\* column, a table whose Statement column holds text and empty cells.
Cells == {PyStr(<<"a", " ", "N">>), PyStr(<<"a">>), PyNaN}
Uploads ==
    {PyNone, [kind |-> "unreadable"], [kind |-> "csv", statement |-> FALSE, rows |-> <<>>]}
        \cup {[kind |-> "csv", statement |-> TRUE, rows |-> r] :
                r \in UNION {[1..k -> Cells] : k \in 0..MaxRecords}}

InitPipeline ==
    /\ pc = "parse"
    /\ raw_dict_json \in RawInputs
    /\ uploaded_file \in Uploads
    /\ user_dict = <<>>
    /\ dict_error = "none"
    /\ df = <<>>
    /\ labels = <<>>
    /\ crash = "none"
    /\ heap = <<>>
    /\ user_ref = 0
    /\ store = <<>>
    /\ log = <<>>
    /\ ops = 0
    /\ compiled = <<>>
    /\ dictionaries = <<>>
    /\ result = NoResult
    /\ text = PyNone
    /\ term = <<>>
    /\ pattern = <<>>
    /\ hit = FALSE

ParseDictionary ==
    /\ pc = "parse"
    /\ user_dict' = parse_user_dict(raw_dict_json).user_dict
    /\ dict_error' = parse_user_dict(raw_dict_json).dict_error
    /\ pc' = "gate"
    /\ UNCHANGED <<raw_dict_json, uploaded_file, df, labels, crash, text, matcherVars, classifyVars, sessionVars>>

\* if uploaded_file is not None and not dict_error
StartBatch ==
    /\ pc = "gate"
    /\ uploaded_file # PyNone /\ dict_error = "none"
    /\ pc' = "read_csv"
    /\ UNCHANGED <<pipelineVars, text, matcherVars, classifyVars, sessionVars>>

NoBatch ==
    /\ pc = "gate"
    /\ ~(uploaded_file # PyNone /\ dict_error = "none")
    /\ pc' = "idle"
    /\ UNCHANGED <<pipelineVars, text, matcherVars, classifyVars, sessionVars>>

ReadCsvFails ==
    /\ pc = "read_csv"
    /\ uploaded_file.kind = "unreadable"
    /\ pc' = "stopped"
    /\ UNCHANGED <<pipelineVars, text, matcherVars, classifyVars, sessionVars>>

ReadCsv ==
    /\ pc = "read_csv"
    /\ uploaded_file.kind = "csv"
    /\ df' = uploaded_file.rows
    /\ pc' = IF uploaded_file.statement THEN "compile" ELSE "stopped"
    /\ UNCHANGED <<raw_dict_json, user_dict, dict_error, uploaded_file, labels, crash,
                   text, matcherVars, classifyVars, sessionVars>>

\* compiled = compile_patterns({k: set(v) for k, v in user_dict.items()})
CompileFails ==
    /\ pc = "compile"
    /\ sets_raise(user_dict) \/ \E d \in sets_of(user_dict) : compile_patterns(d).raised
    /\ crash' = "TypeError"
    /\ pc' = "crashed"
    /\ UNCHANGED <<raw_dict_json, user_dict, dict_error, uploaded_file, df, labels,
                   text, matcherVars, classifyVars, sessionVars>>

Compile ==
    /\ pc = "compile"
    /\ ~sets_raise(user_dict)
    /\ \E d \in sets_of(user_dict) :
          /\ ~compile_patterns(d).raised
          /\ dictionaries' = d
          /\ compiled' = compile_patterns(d).value
    /\ pc' = "classify"
    /\ UNCHANGED <<pipelineVars, text, result, matcherVars, sessionVars>>

\* One row of df["Statement"].astype(str).apply(lambda t: classify_text(t, compiled))
ClassifyRecord ==
    /\ pc = "classify"
    /\ Len(labels) < Len(df)
    /\ \E t \in astype_str(df[Len(labels) + 1]) :
          /\ text' = t
          /\ result' = classify_text(t, compiled)
    /\ labels' = IF result'.raised THEN labels ELSE Append(labels, result'.value)
    /\ crash' = IF result'.raised THEN "TypeError" ELSE crash
    /\ pc' = IF result'.raised THEN "crashed" ELSE pc
    /\ UNCHANGED <<raw_dict_json, user_dict, dict_error, uploaded_file, df,
                   dictionaries, compiled, matcherVars, sessionVars>>

ClassificationComplete ==
    /\ pc = "classify"
    /\ Len(labels) = Len(df)
    /\ pc' = "complete"
    /\ UNCHANGED <<pipelineVars, text, matcherVars, classifyVars, sessionVars>>

NextPipeline ==
    \/ ParseDictionary
    \/ StartBatch
    \/ NoBatch
    \/ ReadCsvFails
    \/ ReadCsv
    \/ CompileFails
    \/ Compile
    \/ ClassifyRecord
    \/ ClassificationComplete

SpecPipeline == InitPipeline /\ [][NextPipeline]_vars

\* ----------------------------------------------- properties of the script
\* The dictionary typed in is invalid: the text is not JSON, it is not an
\* object, or a value that counts (the last one given for its key) cannot be
\* iterated or holds a keyword that is not a string.
InvalidDictionary ==
    \/ raw_dict_json.kind # "object"
    \/ \E i \in 1..Len(raw_dict_json.pairs) :
          LET v == raw_dict_json.pairs[i].vocab
          IN  /\ \A j \in (i + 1)..Len(raw_dict_json.pairs) :
                     raw_dict_json.pairs[j].label # raw_dict_json.pairs[i].label
              /\ \/ v.kind \in {"int", "None"}
                 \/ v.kind = "list" /\ \E j \in 1..Len(v.items) : v.items[j].kind # "str"

\* C5: an invalid dictionary is rejected before the first record is
\* classified: no record gets a labels value in such a run, and a run in which
\* a dictionary or compile error was raised has classified no record.
C5_InvalidDictionaryRejectedFirst ==
    /\ InvalidDictionary => (labels = <<>> /\ pc \notin {"classify", "complete"})
    /\ (dict_error # "none" \/ crash # "none") => labels = <<>>

\* A run with records to classify that ended at the compile step.
C5_Witness ==
    InvalidDictionary /\ pc = "crashed" /\ crash = "TypeError" /\ Len(df) > 0

\* C10: a record whose Statement is missing gets the empty labels string.
C10_MissingStatementUnlabelled ==
    \A i \in 1..Len(labels) : df[i] = PyNaN => labels[i] = <<>>

\* ----------------------------------------------------------- the session
\* Dictionary edits, compile_patterns calls and classify_text calls in any
\* order, on Python objects: a dict object maps each label to the identity of
\* a list object, and an identity is an index of the heap.
DictObject(items) == [type |-> "dict", items |-> items]
ListObject(elems) == [type |-> "list", elems |-> elems]

\* The dictionary a dict object holds, with its lists read through.
DictionaryAt(h, ref) ==
    [i \in 1..Len(h[ref].items) |->
        [label |-> h[ref].items[i].label, vocab |-> PyList(h[h[ref].items[i].ref].elems)]]

CompiledAt(h, ref) ==
    [i \in 1..Len(h[ref].items) |->
        [label |-> h[ref].items[i].label, patterns |-> h[h[ref].items[i].ref].elems]]

\* compile_patterns keeping its result in one dict object shared by all its
\* calls (a mutable default argument): a label compiled before keeps its place.
compile_patterns_shared(h, dref) ==
    LET c == compile_patterns(DictionaryAt(h, dref)).value
        old == {r \in 1..Len(h) : h[r].type = "dict" /\ r # dref}
        at == IF old = {} THEN Len(h) + 1 ELSE CHOOSE r \in old : \A q \in old : r <= q
        h1 == IF old = {} THEN h \o <<DictObject(<<>>)>> ELSE h
        base == Len(h1)
        kept == IF old = {} THEN <<>>
                ELSE SelectSeq(h[at].items,
                               LAMBDA e : \A i \in 1..Len(c) : c[i].label # e.label)
    IN  [heap |-> [(h1 \o [i \in 1..Len(c) |-> ListObject(c[i].patterns)])
                      EXCEPT ![at] = DictObject(
                          kept \o [i \in 1..Len(c) |-> [label |-> c[i].label, ref |-> base + i]])],
         ref |-> at]

\* compile_patterns on the heap: `compiled = {}` is a new dict object, every
\* `patterns = []` a new list object; the argument is only read.
compile_patterns_on(h, dref) ==
    LET c == compile_patterns(DictionaryAt(h, dref)).value
        at == Len(h) + 1
    IN  [heap |-> h \o <<DictObject([i \in 1..Len(c) |-> [label |-> c[i].label, ref |-> at + i]])>>
                    \o [i \in 1..Len(c) |-> ListObject(c[i].patterns)],
         ref |-> at]

SessionTerms == {<<"a">>, <<"n">>, <<"a", " ", "n">>}
SessionTexts == {PyStr(<<"a">>), PyStr(<<"a", " ", "N">>)}

\* The session starts with the dictionary {"x": ["a"]}.
InitSession ==
    /\ pc = "session"
    /\ heap = <<DictObject(<<[label |-> <<"x">>, ref |-> 2]>>), ListObject(<<PyStr(<<"a">>)>>)>>
    /\ user_ref = 1
    /\ store = <<>>
    /\ log = <<>>
    /\ ops = 0
    /\ text = PyNone
    /\ term = <<>>
    /\ pattern = <<>>
    /\ hit = FALSE
    /\ dictionaries = <<>>
    /\ compiled = <<>>
    /\ result = NoResult
    /\ raw_dict_json = PyNone
    /\ user_dict = <<>>
    /\ dict_error = "none"
    /\ uploaded_file = PyNone
    /\ df = <<>>
    /\ labels = <<>>
    /\ crash = "none"

\* user_dict[l] = []
EditAddLabel ==
    /\ ops < MaxOps
    /\ Len(heap[user_ref].items) < MaxLabels
    /\ \E l \in LabelNames :
          /\ \A i \in 1..Len(heap[user_ref].items) : heap[user_ref].items[i].label # l
          /\ heap' = [(heap \o <<ListObject(<<>>)>>) EXCEPT
                         ![user_ref].items = Append(@, [label |-> l, ref |-> Len(heap) + 1])]
    /\ ops' = ops + 1
    /\ UNCHANGED <<user_ref, store, log, pc, text, matcherVars, classifyVars, pipelineVars>>

\* user_dict[l].append(k)
EditAddTerm ==
    /\ ops < MaxOps
    /\ \E i \in 1..Len(heap[user_ref].items), k \in SessionTerms :
          heap' = [heap EXCEPT ![heap[user_ref].items[i].ref].elems = Append(@, PyStr(k))]
    /\ ops' = ops + 1
    /\ UNCHANGED <<user_ref, store, log, pc, text, matcherVars, classifyVars, pipelineVars>>

\* del user_dict[l]
EditRemoveLabel ==
    /\ ops < MaxOps
    /\ \E i \in 1..Len(heap[user_ref].items) :
          heap' = [heap EXCEPT ![user_ref].items =
                      SubSeq(@, 1, i - 1) \o SubSeq(@, i + 1, Len(@))]
    /\ ops' = ops + 1
    /\ UNCHANGED <<user_ref, store, log, pc, text, matcherVars, classifyVars, pipelineVars>>

\* compiled = compile_patterns(user_dict), the caller keeping the earlier ones
Recompile ==
    /\ ops < MaxOps
    /\ heap' = compile_patterns_on(heap, user_ref).heap
    /\ store' = Append(store, compile_patterns_on(heap, user_ref).ref)
    /\ ops' = ops + 1
    /\ UNCHANGED <<user_ref, log, pc, text, matcherVars, classifyVars, pipelineVars>>

\* classify_text(t, c) with any compiled dictionary returned so far
ClassifyWith ==
    /\ ops < MaxOps
    /\ \E n \in 1..Len(store), t \in SessionTexts :
          /\ text' = t
          /\ log' = Append(log, [cd |-> n, text |-> t,
                                 value |-> classify_text(t, CompiledAt(heap, store[n])).value])
    /\ ops' = ops + 1
    /\ UNCHANGED <<heap, user_ref, store, pc, matcherVars, classifyVars, pipelineVars>>

NextSession == EditAddLabel \/ EditAddTerm \/ EditRemoveLabel \/ Recompile \/ ClassifyWith

SpecSession == InitSession /\ [][NextSession]_vars

\* --------------------------------------------- properties of the session
\* (the parts of C9)
\* Every compiled dictionary returned so far is the object it was, holding
\* what it held.
EarlierCompiledKept ==
    /\ Len(store') >= Len(store)
    /\ \A n \in 1..Len(store) :
          store'[n] = store[n] /\ CompiledAt(heap', store[n]) = CompiledAt(heap, store[n])

\* A compile_patterns call returned: its result is an object that did not
\* exist before, and the dictionary it was given holds what it held.
CompileIsolated ==
    Len(store') > Len(store) =>
        /\ store'[Len(store')] \notin 1..Len(heap)
        /\ user_ref' = user_ref
        /\ DictionaryAt(heap', user_ref) = DictionaryAt(heap, user_ref)

\* A classify_text call returned: no object changed.
ClassifyReadsOnly ==
    Len(log') > Len(log) => heap' = heap /\ store' = store

\* The same text with the same compiled dictionary always gave the same value.
SameAnswerAlways ==
    \A i, j \in 1..Len(log) :
        (log[i].cd = log[j].cd /\ log[i].text = log[j].text) => log[i].value = log[j].value

\* C9: a compile_patterns call returns a new compiled dictionary and leaves
\* its input and every earlier compiled dictionary unchanged, classify_text
\* changes neither, and a text classified again with an earlier compiled
\* dictionary gets the labels string it got before.
C9_RecompilationIsolation ==
    /\ [][EarlierCompiledKept /\ CompileIsolated /\ ClassifyReadsOnly]_vars
    /\ []SameAnswerAlways

\* A text classified with the first compiled dictionary, then the dictionary
\* edited and compiled again, then the text classified with the first again.
C9_Witness ==
    /\ Len(store) >= 2
    /\ CompiledAt(heap, store[1]) # CompiledAt(heap, store[2])
    /\ \E i, j \in 1..Len(log) :
          /\ i < j
          /\ log[i].cd = 1 /\ log[j].cd = 1
          /\ log[i].text = log[j].text
          /\ log[i].value # <<>>
          /\ heap[store[2]].type = "dict"
          /\ store[2] > store[1]

====
